---- MODULE Spec2Model ----
(***************************************************************************)
(* Inventory transaction engine of coloub/inventory-api.                   *)
(*                                                                         *)
(* The three mutating handlers of controllers/transactionController.js     *)
(* (createTransaction, updateTransaction, deleteTransaction) each run      *)
(* their body inside session.withTransaction(fn).  The model follows one   *)
(* handler invocation per request slot through the store calls it awaits.  *)
(* The store is the MongoDB session/transaction the handlers call: reads   *)
(* of a scope come from the snapshot taken at its first read, writes are   *)
(* buffered until commit, a write to a document that another scope has     *)
(* written (uncommitted, or committed after the snapshot) is refused with  *)
(* a transient WriteConflict, and withTransaction re-runs the body on a    *)
(* transient error and rethrows any other error after aborting.            *)
(*                                                                         *)
(* The product handlers of controllers/productController.js are single     *)
(* store calls outside any session.  getAllTransactions reads the          *)
(* Transaction collection twice, once for the page and once for the count; *)
(* getTransactionHistory reads it once.  Every router puts                 *)
(* middleware/auth.js authenticateJWT in front of its handlers.            *)
(***************************************************************************)
EXTENDS Integers, FiniteSets, Sequences, TLC

\* ---------------------------------------------------------------- bounds
MaxReq    == 2      \* request slots that may be in flight at once
MaxTx     == 2      \* transaction ids that may ever be committed
MaxQty    == 2      \* largest quantity a request carries
InitMax   == 1      \* largest initial product quantity
MaxFaults == 1      \* store failures injected in one behaviour
MaxOps    == 3      \* requests served in one behaviour
MaxDocs   == 3      \* movements stored when a list is paged
FewDocs   == 2      \* movements stored when a list is filtered
MaxDate   == 2      \* latest movement date
MaxPage   == 3      \* largest page number requested
MaxLimit  == 2      \* largest page size requested
MaxReads  == 2      \* times one read request is sent
MaxPrice  == 1      \* largest price of a product

Reqs       == 1..MaxReq
TxIds      == 1..MaxTx
ProductIds == {"p1", "p2"}
Types      == {"input", "output"}
Users      == {"u1"}
ListUsers  == {"u1", "u2"}  \* users whose movements a list may hold
Dates      == 1..MaxDate
NoteVals   == {"n", ""}
Undefined  == "undefined"   \* a field that req.body does not carry

\* what a request may carry in an optional field: a value or nothing
OptTypes    == {"input", "output", ""}
OptProducts == {"p1", "p2", ""}
OptUsers    == {"u1", "u2", ""}
OptNotes    == {"n", "", "undefined"}

\* the ids a token may name: "u3" is the id of no stored user
AuthUsers == {"u1", "u2", "u3"}
\* tokens: signed with JWT_SECRET for each id, one of them past its exp, and
\* one that jwt.verify cannot verify (forged or malformed)
Jwts    == {"jwtU1", "jwtU2", "jwtU3", "jwtExpired", "jwtForged"}
OptJwts == {"", "jwtU1", "jwtU2", "jwtU3", "jwtExpired", "jwtForged"}
\* the Authorization header: absent, "Bearer <token>", or without the prefix
Schemes == {"", "Bearer", "Plain"}
Routes  == {"transactions", "products", "list", "history"}
\* names of categories, as Product.category holds them
CategoryNames == {"Electronics", "Books"}

\* ------------------------------------------------------------ documents
\* (the fields of every record and the strings of every set are written in
\* one fixed order throughout)
\* findById yielding null
NoDoc == [type |-> "", product |-> "", quantity |-> 0, user |-> "", notes |-> "",
          date |-> 0]
NoOp  == [type |-> "", product |-> "", quantity |-> 0, user |-> "",
          notes |-> Undefined, kind |-> "none", id |-> 0]
NoLoc == [tx |-> NoDoc, pid |-> "", pq |-> 0]
NoTxWrite   == [id |-> 0, op |-> "none", doc |-> NoDoc]
NoProdWrite == [quantity |-> 0, pid |-> ""]
NoErr == [kind |-> "none", available |-> 0, requested |-> 0]
\* Product.findById yielding null; price stands for the fields of a product
\* other than its quantity
NoProduct == [quantity |-> 0, exists |-> FALSE, price |-> 0]

Err(k) == [kind |-> k, available |-> 0, requested |-> 0]

\* a req.query without parameters: "" and 0 stand for an absent parameter
NoQuery == [type |-> "", product |-> "", user |-> "", startDate |-> 0,
            endDate |-> 0, page |-> 0, limit |-> 0]
NoResult == [count |-> 0, totalCount |-> 0, currentPage |-> 0, totalPages |-> 0,
             data |-> << >>]
NoHistory == [count |-> 0, data |-> << >>]

\* a request without credentials
NoCreds == [scheme |-> "", token |-> "", cookie |-> "", route |-> ""]

\* a message that reports the two amounts the wrong way round
InsufficientStockSwapped(available, requested) ==
  [kind |-> "InsufficientStock", available |-> requested, requested |-> available]

\* new Error(`Insufficient stock. Available: ${..}, Requested: ${..}`) of
\* createTransaction and `Insufficient stock after update. ..` of
\* updateTransaction: the message carries the two amounts
InsufficientStock(available, requested) ==
  [kind |-> "InsufficientStock", available |-> available, requested |-> requested]

VARIABLES
  prod,       \* committed Product collection: id -> [exists, quantity]
  initial,    \* quantity each product was created with
  txns,       \* committed Transaction collection: id -> document
  usedIds,    \* ids of every transaction ever committed
  pc,         \* per request: the await the handler is parked at
  op,         \* per request: handler and req.body / req.params
  loc,        \* per request: documents read by the running scope body
  wrTx,       \* per request: uncommitted write to the Transaction collection
  wrProd,     \* per request: uncommitted write to the Product collection
  stale,      \* per request: documents committed by others since its snapshot
  resp,       \* per request: response the client has received
  fwd,        \* per request: error handed to next(error) / thrown out of catch
  err,        \* per request: error thrown out of withTransaction
  committed,  \* per request: its scope has committed
  faults,     \* store failures so far
  started,    \* requests received so far
  gone,       \* ids of the products that were deleted
  lpc,        \* the list handler: the await it is parked at
  query,      \* the list handler: req.query
  found,      \* the list handler: ids of the documents its find returned
  result,     \* the list handler: the body of its response
  past,       \* the data of the earlier responses to the same list request
  hpc,        \* the history handler: the await it is parked at
  hquery,     \* the history handler: req.query
  hist,       \* the history handler: the body of its response
  hpast,      \* the data of the earlier responses to the history request
  apc,        \* per request: where authenticateJWT stands
  creds,      \* per request: Authorization header, token cookie and route
  users,      \* User collection: id -> [exists, isActive]
  category,   \* Product collection: id -> the category name of the product
  categories, \* Category collection: name -> whether a document is stored
  cpc,        \* deleteCategory: the await it is parked at
  cid,        \* deleteCategory: the category req.params.id names
  cresp       \* deleteCategory: the response it sent

vars == <<prod, initial, txns, usedIds, pc, op, loc, wrTx, wrProd, stale,
          resp, fwd, err, committed, faults, started, gone,
          lpc, query, found, result, past, hpc, hquery, hist, hpast,
          apc, creds, users, category, categories, cpc, cid, cresp>>

listVars == <<lpc, query, found, result, past>>
histVars == <<hpc, hquery, hist, hpast>>

\* what belongs to the two handlers that only read
readVars == <<listVars, histVars>>

\* what belongs to the authentication middleware
authVars == <<apc, creds, users>>

\* what belongs to the category handlers, and the category of each product
catVars == <<category, categories, cpc, cid, cresp>>

\* what the transaction handlers never touch
otherVars == <<gone, readVars, authVars, catVars>>

\* what belongs to the invocations of the transaction handlers
handlerVars == <<pc, op, loc, wrTx, wrProd, stale, resp, fwd, err, committed,
                 faults, started>>

storeVars == <<prod, initial, txns, usedIds>>

\* Date.now, the default of transactionSchema.date: a clock that ticks with
\* every movement committed, so that creates that overlap get equal dates
Now == Cardinality(usedIds) + 1

\* ------------------------------------------------------- pure functions
\* the signed stock effect of a movement (input adds, output removes)
Effect(type, n) == IF type = "input" THEN n ELSE 0 - n

\* a || b on strings and numbers: the empty string, 0 and undefined are falsy
OrStr(a, b) == IF a = "" \/ a = Undefined THEN b ELSE a
OrNum(a, b) == IF a = 0 THEN b ELSE a

\* a schema that puts no minimum on the quantity
ProductQuantityUnchecked(q) == TRUE

\* productSchema.quantity: min 0, applied by runValidators on every update
ProductQuantityValid(q) == q >= 0

\* a create without its stock check
CreateNeverRejects(type, pq, n) == FALSE

\* a create that refuses an output of the whole stock
CreateRejectsWholeStock(type, pq, n) == type = "output" /\ pq <= n

\* createTransaction, line 93: the stock check for output movements
CreateRejects(type, pq, n) == type = "output" /\ pq < n

\* updateTransaction, lines 183-189: the stock check, made for an output only
UpdateRejects(newType, newQuantity) == newType # "input" /\ newQuantity < 0

\* a delete that also refuses to bring the stock to zero
DeleteRejectsAtZero(newQuantity) == newQuantity <= 0

\* a delete without its check
DeleteNeverRejects(newQuantity) == FALSE

\* deleteTransaction, line 258: the check on the reverted quantity
DeleteRejects(newQuantity) == newQuantity < 0

\* a create that adds the quantity whatever the type
CreateAlwaysAdds(type, pq, n) == pq + n

\* createTransaction: newQuantity
CreateNewQuantity(type, pq, n) == IF type = "input" THEN pq + n ELSE pq - n

\* a revert that takes every movement for an input
RevertAlwaysSubtracts(tx, pq) == pq - tx.quantity

\* updateTransaction / deleteTransaction: revert the stored movement
RevertedQuantity(tx, pq) ==
  IF tx.type = "input" THEN pq - tx.quantity ELSE pq + tx.quantity

\* updateTransaction: effective type
NewType(o, tx) == OrStr(o.type, tx.type)

\* a quantity taken from the payload also when the payload carries none
NewQtyNoDefault(o, tx) == o.quantity

\* updateTransaction: effective quantity
NewQty(o, tx) == OrNum(o.quantity, tx.quantity)

\* an update that keeps working on the product of the stored movement
UpdateProductRefOriginal(o, tx) == tx.product

\* updateTransaction, lines 163 and 205: productId || originalTransaction.product
UpdateProductRef(o, tx) == OrStr(o.product, tx.product)

\* an update that applies the new movement without reverting the stored one
UpdateWithoutRevert(o, tx, pq) ==
  IF NewType(o, tx) = "input" THEN pq + NewQty(o, tx) ELSE pq - NewQty(o, tx)

\* updateTransaction: newQuantity
UpdateNewQuantity(o, tx, pq) ==
  IF NewType(o, tx) = "input"
    THEN RevertedQuantity(tx, pq) + NewQty(o, tx)
    ELSE RevertedQuantity(tx, pq) - NewQty(o, tx)

\* a patch that also stamps the movement with the caller and the time
UpdatedDocRestamped(o, tx) ==
  [type     |-> NewType(o, tx),
   product  |-> OrStr(o.product, tx.product),
   quantity |-> NewQty(o, tx),
   user     |-> o.user,
   notes    |-> IF o.notes # Undefined THEN o.notes ELSE tx.notes,
   date     |-> Now]

\* a patch that leaves the stored quantity as it was
UpdatedDocKeepsQuantity(o, tx) ==
  [type     |-> NewType(o, tx),
   product  |-> OrStr(o.product, tx.product),
   quantity |-> tx.quantity,
   user     |-> tx.user,
   notes    |-> IF o.notes # Undefined THEN o.notes ELSE tx.notes,
   date     |-> tx.date]

\* updateTransaction: the patch handed to Transaction.findByIdAndUpdate; a
\* field that the patch does not name keeps its stored value
UpdatedDoc(o, tx) ==
  [type     |-> NewType(o, tx),
   product  |-> OrStr(o.product, tx.product),
   quantity |-> NewQty(o, tx),
   user     |-> tx.user,
   notes    |-> IF o.notes # Undefined THEN o.notes ELSE tx.notes,
   date     |-> tx.date]

\* createTransaction: transactionData, with the schema's default date
CreatedDoc(o) ==
  [type |-> o.type, product |-> o.product, quantity |-> o.quantity,
   user |-> o.user, notes |-> OrStr(o.notes, ""), date |-> Now]

\* ------------------------------------------------------------ the store
FindTx(id) == IF id \in DOMAIN txns THEN txns[id] ELSE NoDoc
TxFound(d) == d # NoDoc

\* a handler that takes every product id for a stored product
ProductAlwaysFound(product) == TRUE

\* Product.findById(..) yielding a document: the test "if (!product)"
ProductFound(product) == product.exists

\* a scope has a snapshot from its first read until it commits or aborts
InScope(r) == pc[r] \in {"writeTx", "writeProd", "populate", "commit"}

\* WriteConflict: the document was committed by another scope after this
\* scope's snapshot, or carries another scope's uncommitted write
ProdConflict(r, p) ==
  \/ p \in stale[r].p
  \/ \E s \in Reqs \ {r} : wrProd[s].pid = p
TxConflict(r, id) ==
  \/ id \in stale[r].t
  \/ \E s \in Reqs \ {r} : wrTx[s].op # "none" /\ wrTx[s].id = id

\* ids that become free again when their document is deleted
FreeIdsReused(r) ==
  TxIds \ (DOMAIN txns \cup {wrTx[s].id : s \in {x \in Reqs \ {r} : wrTx[x].op = "put"}})

\* ObjectId of a new document: never used by a committed or pending insert
FreeIds(r) ==
  TxIds \ (usedIds \cup {wrTx[s].id : s \in {x \in Reqs \ {r} : wrTx[x].op = "put"}})
NewId(r) == CHOOSE i \in FreeIds(r) : \A j \in FreeIds(r) : i <= j

\* ------------------------------------------------- control of one scope
\* the body throws e: withTransaction aborts (every buffered write is
\* dropped) and rethrows to the handler's catch block
Throw(r, e) ==
  /\ pc' = [pc EXCEPT ![r] = "catch"]
  /\ err' = [err EXCEPT ![r] = e]
  /\ wrTx' = [wrTx EXCEPT ![r] = NoTxWrite]
  /\ wrProd' = [wrProd EXCEPT ![r] = NoProdWrite]
  /\ loc' = [loc EXCEPT ![r] = NoLoc]
  /\ UNCHANGED <<storeVars, op, stale, resp, fwd, committed>>

\* a TransientTransactionError: withTransaction aborts and runs the body again
Retry(r) ==
  /\ pc' = [pc EXCEPT ![r] = "read"]
  /\ wrTx' = [wrTx EXCEPT ![r] = NoTxWrite]
  /\ wrProd' = [wrProd EXCEPT ![r] = NoProdWrite]
  /\ loc' = [loc EXCEPT ![r] = NoLoc]
  /\ UNCHANGED <<storeVars, op, stale, resp, fwd, err, committed>>

\* a runtime that lets a handler write a second response
CanAlwaysRespond(r) == TRUE

\* res.status(..).json(..): Node refuses a second response on one request
CanRespond(r) == resp[r] = "none"

\* a Transaction write made without the session
TxWriteNoSession(kind) == FALSE

\* whether the handler hands its session to the Transaction write
\* (Transaction.create([..], { session }), findByIdAndUpdate(.., { session }),
\* findByIdAndDelete(..).session(session)); a write without it is not part
\* of the scope and is not undone by an abort
TxWriteInSession(kind) == kind \in {"create", "update", "delete"}

\* a Product write made without the session
ProdWriteNoSession(kind) == FALSE

\* whether the handler hands its session to the Product write
\* (Product.findByIdAndUpdate(.., { session, new: true, runValidators: true }))
ProdWriteInSession(kind) == kind \in {"create", "update", "delete"}

\* the Transaction collection after a write of request r reaches it
ApplyTxWrite(w) ==
  IF w.op = "put"
    THEN [i \in DOMAIN txns \cup {w.id} |-> IF i = w.id THEN w.doc ELSE txns[i]]
    ELSE IF w.op = "del"
      THEN [i \in DOMAIN txns \ {w.id} |-> txns[i]]
      ELSE txns

\* a write that stores a whole new document in place of the product
ApplyProdWriteReplace(w) ==
  IF w.pid = "" \/ ~prod[w.pid].exists THEN prod
  ELSE [prod EXCEPT ![w.pid] = [quantity |-> w.quantity, exists |-> TRUE,
                                price |-> 0]]

\* findByIdAndUpdate(pid, { quantity }) changes a stored product and inserts
\* none: the update sets the quantity and leaves every other field
ApplyProdWrite(w) ==
  IF w.pid = "" \/ ~prod[w.pid].exists THEN prod
  ELSE [prod EXCEPT ![w.pid].quantity = w.quantity]

\* --------------------------------------------------------------- requests
Start(r, o) ==
  /\ pc[r] \in {"idle", "done"}
  /\ started < MaxOps
  /\ started' = started + 1
  /\ pc' = [pc EXCEPT ![r] = "read"]
  /\ op' = [op EXCEPT ![r] = o]
  /\ resp' = [resp EXCEPT ![r] = "none"]
  /\ fwd' = [fwd EXCEPT ![r] = "none"]
  /\ err' = [err EXCEPT ![r] = NoErr]
  /\ committed' = [committed EXCEPT ![r] = FALSE]
  /\ UNCHANGED <<storeVars, loc, wrTx, wrProd, stale, faults, otherVars>>

\* the request is over: only its handler's name is kept with the outcome
Closed(o) == [NoOp EXCEPT !.kind = o.kind]

\* POST /api/v1/transactions, body validated by transactionValidation;
\* I, P, NT: the transaction ids, product ids and notes the callers send
\* and U the users they are authenticated as (req.user._id)
BeginCreateAs(r, P, NT, U) ==
  \E t \in Types, p \in P, n \in 1..MaxQty, nt \in NT, u \in U :
    /\ Cardinality(usedIds)
         + Cardinality({s \in Reqs \ {r} : pc[s] \notin {"idle", "done"}
                                            /\ op[s].kind = "create"}) < MaxTx
    /\ Start(r, [type |-> t, product |-> p, quantity |-> n, user |-> u,
                 notes |-> nt, kind |-> "create", id |-> 0])

BeginCreate(r, P, NT) == BeginCreateAs(r, P, NT, Users)

\* PUT /api/v1/transactions/:id; the handler accepts a partial body
BeginUpdateAs(r, I, P, NT, U) ==
  \E i \in I, t \in OptTypes, p \in P, n \in 0..MaxQty, nt \in NT,
     u \in U :
    Start(r, [type |-> t, product |-> p, quantity |-> n, user |-> u,
              notes |-> nt, kind |-> "update", id |-> i])

BeginUpdate(r, I, P, NT) == BeginUpdateAs(r, I, P, NT, Users)

\* DELETE /api/v1/transactions/:id
BeginDeleteAs(r, I, U) ==
  \E i \in I, u \in U :
    Start(r, [type |-> "", product |-> "", quantity |-> 0, user |-> u,
              notes |-> Undefined, kind |-> "delete", id |-> i])

BeginDelete(r, I) == BeginDeleteAs(r, I, Users)

\* a new run of the body that keeps the snapshot of the aborted run
SnapshotKeepsStale(r) == UNCHANGED stale

\* the reads of a scope body and the checks made on them; the first read
\* fixes the snapshot, so every read of the body sees this one store state
Snapshot(r) == stale' = [stale EXCEPT ![r] = [p |-> {}, t |-> {}]]

\* createTransaction, lines 84-95
CreateRead(r) ==
  /\ pc[r] = "read" /\ op[r].kind = "create"
  /\ LET o == op[r]
         product == prod[o.product]
     IN IF ~ProductFound(product)
          THEN Throw(r, Err("ProductNotFound")) /\ UNCHANGED <<faults, started, otherVars>>
        ELSE IF CreateRejects(o.type, product.quantity, o.quantity)
          THEN Throw(r, InsufficientStock(product.quantity, o.quantity))
               /\ UNCHANGED <<faults, started, otherVars>>
        ELSE /\ pc' = [pc EXCEPT ![r] = "writeTx"]
             /\ loc' = [loc EXCEPT ![r] = [tx |-> NoDoc, pid |-> o.product,
                                           pq |-> product.quantity]]
             /\ Snapshot(r)
             /\ UNCHANGED <<storeVars, op, wrTx, wrProd, resp, fwd, err,
                            committed, faults, started, otherVars>>

\* updateTransaction, lines 155-190
UpdateRead(r) ==
  /\ pc[r] = "read" /\ op[r].kind = "update"
  /\ LET o == op[r]
         originalTransaction == FindTx(o.id)
         pid == UpdateProductRef(o, originalTransaction)
         product == prod[pid]
     IN IF ~TxFound(originalTransaction)
          THEN Throw(r, Err("TransactionNotFound")) /\ UNCHANGED <<faults, started, otherVars>>
        ELSE IF ~ProductFound(product)
          THEN Throw(r, Err("ProductNotFound")) /\ UNCHANGED <<faults, started, otherVars>>
        ELSE IF UpdateRejects(NewType(o, originalTransaction),
                              UpdateNewQuantity(o, originalTransaction,
                                                product.quantity))
          THEN Throw(r, InsufficientStock(
                          RevertedQuantity(originalTransaction, product.quantity),
                          NewQty(o, originalTransaction)))
               /\ UNCHANGED <<faults, started, otherVars>>
        ELSE /\ pc' = [pc EXCEPT ![r] = "writeTx"]
             /\ loc' = [loc EXCEPT ![r] = [tx |-> originalTransaction, pid |-> pid,
                                           pq |-> product.quantity]]
             /\ Snapshot(r)
             /\ UNCHANGED <<storeVars, op, wrTx, wrProd, resp, fwd, err,
                            committed, faults, started, otherVars>>

\* deleteTransaction, lines 238-260
DeleteRead(r) ==
  /\ pc[r] = "read" /\ op[r].kind = "delete"
  /\ LET o == op[r]
         transaction == FindTx(o.id)
         product == IF TxFound(transaction) THEN prod[transaction.product]
                    ELSE NoProduct
     IN IF ~TxFound(transaction)
          THEN Throw(r, Err("TransactionNotFound")) /\ UNCHANGED <<faults, started, otherVars>>
        ELSE IF ~ProductFound(product)
          THEN Throw(r, Err("ProductNotFound")) /\ UNCHANGED <<faults, started, otherVars>>
        ELSE IF DeleteRejects(RevertedQuantity(transaction, product.quantity))
          THEN Throw(r, Err("NegativeStock")) /\ UNCHANGED <<faults, started, otherVars>>
        ELSE /\ pc' = [pc EXCEPT ![r] = "writeTx"]
             /\ loc' = [loc EXCEPT ![r] = [tx |-> transaction,
                                           pid |-> transaction.product,
                                           pq |-> product.quantity]]
             /\ Snapshot(r)
             /\ UNCHANGED <<storeVars, op, wrTx, wrProd, resp, fwd, err,
                            committed, faults, started, otherVars>>

\* documents a commit (or a write outside any session) makes newer than the
\* snapshot of every other running scope
MarkStale(r, pids, tids) ==
  [s \in Reqs |-> IF s # r /\ InScope(s)
                    THEN [p |-> stale[s].p \cup pids, t |-> stale[s].t \cup tids]
                    ELSE stale[s]]

\* a write to the Transaction collection: buffered in the scope when the
\* handler passes its session, applied at once when it does not
WriteTx(r, w, next) ==
  /\ pc' = [pc EXCEPT ![r] = next]
  /\ IF TxWriteInSession(op[r].kind)
       THEN /\ wrTx' = [wrTx EXCEPT ![r] = w]
            /\ UNCHANGED <<txns, usedIds, stale>>
       ELSE /\ txns' = ApplyTxWrite(w)
            /\ usedIds' = usedIds \cup {w.id}
            /\ stale' = MarkStale(r, {}, {w.id})
            /\ UNCHANGED wrTx
  /\ UNCHANGED <<prod, initial, op, loc, wrProd, resp, fwd, err, committed, faults, started, otherVars>>

\* createTransaction, line 106: Transaction.create([transactionData], { session })
CreateInsert(r) ==
  /\ pc[r] = "writeTx" /\ op[r].kind = "create"
  /\ FreeIds(r) # {}
  /\ WriteTx(r, [id |-> NewId(r), op |-> "put", doc |-> CreatedDoc(op[r])],
             "writeProd")

\* updateTransaction, lines 193-202: Transaction.findByIdAndUpdate
UpdatePatch(r) ==
  /\ pc[r] = "writeTx" /\ op[r].kind = "update"
  /\ IF TxConflict(r, op[r].id)
       THEN Retry(r) /\ UNCHANGED <<faults, started, otherVars>>
       ELSE WriteTx(r, [id |-> op[r].id, op |-> "put",
                        doc |-> UpdatedDoc(op[r], loc[r].tx)], "writeProd")

\* deleteTransaction, line 263: Transaction.findByIdAndDelete
DeleteRemove(r) ==
  /\ pc[r] = "writeTx" /\ op[r].kind = "delete"
  /\ IF TxConflict(r, op[r].id)
       THEN Retry(r) /\ UNCHANGED <<faults, started, otherVars>>
       ELSE WriteTx(r, [id |-> op[r].id, op |-> "del", doc |-> NoDoc], "writeProd")

\* Product.findByIdAndUpdate(pid, { quantity }, { session, runValidators: true });
\* respond: the handler sends its success response right after the write
WriteProduct(r, newQuantity, respond) ==
  IF ~ProductQuantityValid(newQuantity)
    THEN Throw(r, Err("Validation")) /\ UNCHANGED <<faults, started, otherVars>>
  ELSE IF ProdWriteInSession(op[r].kind) /\ ProdConflict(r, loc[r].pid)
    THEN Retry(r) /\ UNCHANGED <<faults, started, otherVars>>
  ELSE IF respond /\ ~CanRespond(r)
    THEN Throw(r, Err("HeadersSent")) /\ UNCHANGED <<faults, started, otherVars>>
  ELSE LET w == [quantity |-> newQuantity, pid |-> loc[r].pid]
       IN /\ IF ProdWriteInSession(op[r].kind)
               THEN /\ wrProd' = [wrProd EXCEPT ![r] = w]
                    /\ UNCHANGED <<prod, stale>>
               ELSE /\ prod' = ApplyProdWrite(w)
                    /\ stale' = MarkStale(r, {w.pid}, {})
                    /\ UNCHANGED wrProd
          /\ pc' = [pc EXCEPT ![r] = IF respond THEN "commit" ELSE "populate"]
          /\ resp' = [resp EXCEPT ![r] = IF respond THEN "success" ELSE @]
          /\ UNCHANGED <<initial, txns, usedIds, op, loc, wrTx, fwd, err,
                         committed, faults, started, otherVars>>

\* createTransaction, lines 108-120
CreateWriteProduct(r) ==
  /\ pc[r] = "writeProd" /\ op[r].kind = "create"
  /\ WriteProduct(r, CreateNewQuantity(op[r].type, loc[r].pq, op[r].quantity), FALSE)

\* createTransaction, lines 122-131: populate, then res.status(201).json
CreateRespond(r) ==
  /\ pc[r] = "populate" /\ op[r].kind = "create"
  /\ IF CanRespond(r)
       THEN /\ resp' = [resp EXCEPT ![r] = "success"]
            /\ pc' = [pc EXCEPT ![r] = "commit"]
            /\ UNCHANGED <<storeVars, op, loc, wrTx, wrProd, stale, fwd, err,
                           committed, faults, started, otherVars>>
       ELSE Throw(r, Err("HeadersSent")) /\ UNCHANGED <<faults, started, otherVars>>

\* updateTransaction, lines 204-214
UpdateWriteProduct(r) ==
  /\ pc[r] = "writeProd" /\ op[r].kind = "update"
  /\ WriteProduct(r, UpdateNewQuantity(op[r], loc[r].tx, loc[r].pq), TRUE)

\* deleteTransaction, lines 265-275
DeleteWriteProduct(r) ==
  /\ pc[r] = "writeProd" /\ op[r].kind = "delete"
  /\ WriteProduct(r, RevertedQuantity(loc[r].tx, loc[r].pq), TRUE)

\* the body returned: withTransaction commits the buffered writes together
Commit(r) ==
  /\ pc[r] = "commit"
  /\ txns' = ApplyTxWrite(wrTx[r])
  /\ prod' = ApplyProdWrite(wrProd[r])
  /\ usedIds' = IF wrTx[r].op = "put" THEN usedIds \cup {wrTx[r].id} ELSE usedIds
  /\ stale' = MarkStale(r, IF wrProd[r].pid = "" THEN {} ELSE {wrProd[r].pid},
                           IF wrTx[r].op = "none" THEN {} ELSE {wrTx[r].id})
  /\ committed' = [committed EXCEPT ![r] = TRUE]
  /\ pc' = [pc EXCEPT ![r] = "done"]
  /\ wrTx' = [wrTx EXCEPT ![r] = NoTxWrite]
  /\ wrProd' = [wrProd EXCEPT ![r] = NoProdWrite]
  /\ loc' = [loc EXCEPT ![r] = NoLoc]
  /\ op' = [op EXCEPT ![r] = Closed(@)]
  /\ UNCHANGED <<initial, resp, fwd, err, faults, started, otherVars>>

\* a store call of the scope (a read, a write or the commit) fails: with a
\* TransientTransactionError label the body runs again, otherwise the error
\* reaches the handler's catch block
StoreFault(r) ==
  /\ pc[r] \in {"writeTx", "writeProd", "populate", "commit", "read"}
  /\ faults < MaxFaults
  /\ faults' = faults + 1
  /\ UNCHANGED <<started, otherVars>>
  /\ \/ Retry(r)
     \/ Throw(r, Err("StoreError"))

\* error.message tests of the three catch blocks
ClientErrors(kind) ==
  IF kind = "create" THEN {"InsufficientStock", "ProductNotFound"}
  ELSE IF kind = "update"
    THEN {"InsufficientStock", "ProductNotFound", "TransactionNotFound"}
    ELSE {"ProductNotFound", "TransactionNotFound", "NegativeStock"}

\* catch / finally of a handler: a 400 for the errors it recognises,
\* next(error) for the rest, then session.endSession()
Catch(r) ==
  /\ pc[r] = "catch"
  /\ pc' = [pc EXCEPT ![r] = "done"]
  /\ IF err[r].kind \in ClientErrors(op[r].kind)
       THEN IF CanRespond(r)
              THEN resp' = [resp EXCEPT ![r] = err[r].kind] /\ UNCHANGED fwd
              ELSE fwd' = [fwd EXCEPT ![r] = "unhandled"] /\ UNCHANGED resp
       ELSE fwd' = [fwd EXCEPT ![r] = err[r].kind] /\ UNCHANGED resp
  /\ op' = [op EXCEPT ![r] = Closed(@)]
  /\ err' = [err EXCEPT ![r] = NoErr]
  /\ UNCHANGED <<storeVars, loc, wrTx, wrProd, stale, committed, faults, started, otherVars>>

\* ------------------------------------------------------ authenticateJWT
\* jwt.verify(token, JWT_SECRET): the signature is checked, then the expiry
Verify(token) ==
  IF token = "jwtForged" THEN "JsonWebTokenError"
  ELSE IF token = "jwtExpired" THEN "TokenExpiredError"
  ELSE "ok"

\* decoded.id of a token that verifies
DecodedId(token) ==
  IF token = "jwtU2" THEN "u2" ELSE IF token = "jwtU3" THEN "u3" ELSE "u1"

\* authenticateJWT, lines 9-15: the token of a header that starts with
\* Bearer, else the token cookie; "" stands for undefined
ExtractToken(c) == IF c.scheme = "Bearer" THEN c.token ELSE c.cookie

\* a middleware that accepts a token past its expiry
TokenAcceptedExpired(token) == token # "" /\ Verify(token) # "JsonWebTokenError"

\* authenticateJWT, lines 18-27: a token is there and jwt.verify returns
TokenAccepted(token) == token # "" /\ Verify(token) = "ok"

\* a middleware that lets deactivated users in
UserAdmittedInactive(user) == user.exists

\* authenticateJWT, lines 32-44: the tests "!user" and "!user.isActive"
UserAdmitted(user) == user.exists /\ user.isActive

\* a request arrives at a router whose first middleware is authenticateJWT,
\* which runs up to its await: 401 without a token or when jwt.verify
\* throws, else User.findById(decoded.id) is awaited
AuthReceive(r) ==
  /\ apc[r] = "idle"
  /\ \E sc \in Schemes, tk \in OptJwts, ck \in OptJwts, rt \in Routes :
       /\ sc = "" => tk = ""
       /\ sc = "Plain" => tk # ""
       /\ creds' = [creds EXCEPT ![r] = [scheme |-> sc, token |-> tk,
                                          cookie |-> ck, route |-> rt]]
       /\ apc' = [apc EXCEPT ![r] =
                    IF TokenAccepted(ExtractToken(creds'[r])) THEN "findUser"
                    ELSE "401"]
  /\ UNCHANGED <<storeVars, handlerVars, gone, readVars, users, catVars>>

\* authenticateJWT, lines 30-48: the user is looked up; next() is called for
\* an active user, and a failed lookup is answered 401 by the catch block
AuthFindUser(r) ==
  /\ apc[r] = "findUser"
  /\ \/ /\ apc' = [apc EXCEPT ![r] =
                    IF UserAdmitted(users[DecodedId(ExtractToken(creds[r]))])
                      THEN "next" ELSE "401"]
        /\ UNCHANGED faults
     \/ /\ faults < MaxFaults
        /\ faults' = faults + 1
        /\ apc' = [apc EXCEPT ![r] = "401"]
  /\ UNCHANGED <<storeVars, pc, op, loc, wrTx, wrProd, stale, resp, fwd, err,
                 committed, started, gone, readVars, creds, users, catVars>>

\* express.Router: the request reaches the handlers of its route once
\* authenticateJWT has called next()
Routed(r, rt) == apc[r] = "next" /\ creds[r].route = rt /\ started = 0

\* req.user._id
ReqUser(r) == DecodedId(ExtractToken(creds[r]))

\* ------------------------------------------------------ product handlers
\* each product handler is one store call made outside any session: it
\* waits while a running scope holds an uncommitted write to the document,
\* and it makes the document newer than the snapshot of every running scope
ProductCall(p) ==
  /\ started < MaxOps
  /\ started' = started + 1
  /\ \A s \in Reqs : wrProd[s].pid # p
  /\ stale' = MarkStale(0, {p}, {})
  /\ UNCHANGED <<txns, usedIds, pc, op, loc, wrTx, wrProd, resp, fwd, err,
                 committed, faults, readVars, authVars, categories, cpc, cid,
                 cresp>>

\* the category every product has where categories are not looked at
SomeCategory == "Electronics"

\* productController.createProduct: Product.create(req.body), the quantity
\* validated by productValidation (an integer >= 0), the category any
\* string of 1 to 50 characters
CreateProductIn(p, q, C) ==
  /\ ~prod[p].exists /\ p \notin gone
  /\ ProductCall(p)
  /\ \E pr \in 0..MaxPrice :
       prod' = [prod EXCEPT ![p] = [quantity |-> q, exists |-> TRUE, price |-> pr]]
  /\ \E c \in C : category' = [category EXCEPT ![p] = c]
  /\ initial' = [initial EXCEPT ![p] = q]
  /\ UNCHANGED gone

CreateProduct(p, q) == CreateProductIn(p, q, {SomeCategory})

\* productController.updateProduct: Product.findByIdAndUpdate(id, req.body),
\* the body validated by productValidation, which requires a quantity
UpdateProductIn(p, q, C) ==
  /\ ProductCall(p)
  /\ \E pr \in 0..MaxPrice :
       prod' = IF prod[p].exists
                 THEN [prod EXCEPT ![p] = [quantity |-> q, exists |-> TRUE,
                                           price |-> pr]]
                 ELSE prod
  /\ \E c \in C :
       category' = IF prod[p].exists THEN [category EXCEPT ![p] = c] ELSE category
  /\ UNCHANGED <<initial, gone>>

UpdateProduct(p, q) == UpdateProductIn(p, q, {SomeCategory})

\* productController.deleteProduct: Product.findByIdAndDelete(id)
DeleteProduct(p) ==
  /\ ProductCall(p)
  /\ prod' = IF prod[p].exists
               THEN [prod EXCEPT ![p] = NoProduct]
               ELSE prod
  /\ gone' = IF prod[p].exists THEN gone \cup {p} ELSE gone
  /\ category' = [category EXCEPT ![p] = ""]
  /\ UNCHANGED initial

\* ------------------------------------------------- the category handlers
\* categorySchema.methods.getProducts: Product.find({ category: this.name })
GetProducts(c) == {p \in ProductIds : prod[p].exists /\ category[p] = c}

\* deleteCategory, line 126: products.length > 0
DeleteBlocked(c) == GetProducts(c) # {}

\* DELETE /api/v1/categories/:id, once in a behaviour
DeleteCategoryStart(c) ==
  /\ cpc = "idle"
  /\ cid' = c
  /\ cpc' = "find"
  /\ UNCHANGED <<storeVars, handlerVars, gone, readVars, authVars, category,
                 categories, cresp>>

\* deleteCategory, lines 115-122: Category.findById
DeleteCategoryFind ==
  /\ cpc = "find"
  /\ IF categories[cid]
       THEN cpc' = "check" /\ UNCHANGED cresp
       ELSE cpc' = "done" /\ cresp' = "404"
  /\ UNCHANGED <<storeVars, handlerVars, gone, readVars, authVars, category,
                 categories, cid>>

\* deleteCategory, lines 125-131: category.getProducts() and the refusal
DeleteCategoryCheck ==
  /\ cpc = "check"
  /\ IF DeleteBlocked(cid)
       THEN cpc' = "done" /\ cresp' = "400"
       ELSE cpc' = "remove" /\ UNCHANGED cresp
  /\ UNCHANGED <<storeVars, handlerVars, gone, readVars, authVars, category,
                 categories, cid>>

\* deleteCategory, lines 133-138: Category.findByIdAndDelete and the response
DeleteCategoryRemove ==
  /\ cpc = "remove"
  /\ categories' = [categories EXCEPT ![cid] = FALSE]
  /\ cpc' = "done"
  /\ cresp' = "200"
  /\ UNCHANGED <<storeVars, handlerVars, gone, readVars, authVars, category, cid>>

\* no category handler is running, every category is stored and every
\* stored product is of one category
InitNoCategories ==
  /\ category = [p \in ProductIds |-> IF prod[p].exists THEN SomeCategory ELSE ""]
  /\ categories = [c \in CategoryNames |-> TRUE]
  /\ cpc = "idle"
  /\ cid = ""
  /\ cresp = "none"

\* ------------------------------------------------------- the list handler
\* getAllTransactions, line 11: const { .., page = 1, limit = 10 } = req.query
DefaultPage  == 1
DefaultLimit == 10
Page(q)  == IF q.page = 0 THEN DefaultPage ELSE q.page
Limit(q) == IF q.limit = 0 THEN DefaultLimit ELSE q.limit

\* a filter whose date range leaves out its two ends
MatchesExclusive(q, d) ==
  /\ q.type # "" => d.type = q.type
  /\ q.product # "" => d.product = q.product
  /\ q.user # "" => d.user = q.user
  /\ q.startDate # 0 => d.date > q.startDate
  /\ q.endDate # 0 => d.date < q.endDate

\* getAllTransactions, lines 14-25: the filter object; a parameter that is
\* absent (or empty) adds no condition, $gte and $lte bound the date
Matches(q, d) ==
  /\ q.type # "" => d.type = q.type
  /\ q.product # "" => d.product = q.product
  /\ q.user # "" => d.user = q.user
  /\ q.startDate # 0 => d.date >= q.startDate
  /\ q.endDate # 0 => d.date <= q.endDate

\* the ids of the stored documents the filter selects
Matching(q) == {i \in DOMAIN txns : Matches(q, txns[i])}

\* a skip that takes the first page for page 0
SkipFromZero(q) == Page(q) * Limit(q)

\* getAllTransactions, line 28: skip
Skip(q) == (Page(q) - 1) * Limit(q)

RECURSIVE SortedByDate(_)
\* .sort({ date: -1 }): the orders the store may return the documents in,
\* most recent first, documents of equal date in any order
SortedByDate(ids) ==
  IF ids = {} THEN {<< >>}
  ELSE UNION {{<<i>> \o s : s \in SortedByDate(ids \ {i})} :
                i \in {x \in ids : \A y \in ids : txns[y].date <= txns[x].date}}

\* .skip(skip).limit(limit) on a sorted result
SkipLimit(s, skip, limit) ==
  SubSeq(s, skip + 1, IF skip + limit < Len(s) THEN skip + limit ELSE Len(s))

\* a division that rounds down
FloorDiv(a, b) == a \div b

\* Math.ceil(a / b) for a >= 0 and b >= 1
CeilDiv(a, b) == (a + b - 1) \div b

InitNoList ==
  /\ lpc = "idle"
  /\ query = NoQuery
  /\ found = << >>
  /\ result = NoResult
  /\ past = << >>
  /\ hpc = "idle"
  /\ hquery = NoQuery
  /\ hist = NoHistory
  /\ hpast = << >>

\* no request is in the middleware and every user is active
InitNoAuth ==
  /\ apc = [r \in Reqs |-> "idle"]
  /\ creds = [r \in Reqs |-> NoCreds]
  /\ users = [a \in AuthUsers |-> [exists |-> TRUE, isActive |-> TRUE]]

\* GET /api/v1/transactions, once in a behaviour; T, P, U, D, PG, LM: the
\* values the callers send for type, product, user, the two dates, page and
\* limit
ListStart(T, P, U, D, PG, LM) ==
  /\ lpc = "idle"
  /\ \E t \in T, p \in P, u \in U, sd \in D, ed \in D, pg \in PG, lm \in LM :
       query' = [type |-> t, product |-> p, user |-> u, startDate |-> sd,
                 endDate |-> ed, page |-> pg, limit |-> lm]
  /\ lpc' = "find"
  /\ found' = << >>
  /\ result' = NoResult
  /\ UNCHANGED <<storeVars, handlerVars, gone, authVars, catVars, past, histVars>>

\* getAllTransactions, lines 31-34: Transaction.find(filter).sort().skip().limit()
ListFind ==
  /\ lpc = "find"
  /\ \E s \in SortedByDate(Matching(query)) :
       found' = SkipLimit(s, Skip(query), Limit(query))
  /\ lpc' = "counting"
  /\ UNCHANGED <<storeVars, handlerVars, gone, authVars, catVars, query, result, past, histVars>>

\* getAllTransactions, lines 37-46: Transaction.countDocuments(filter), then
\* the response
ListCount ==
  /\ lpc = "counting"
  /\ LET totalCount == Cardinality(Matching(query))
     IN result' = [count |-> Len(found), totalCount |-> totalCount,
                   currentPage |-> Page(query),
                   totalPages |-> CeilDiv(totalCount, Limit(query)),
                   data |-> found]
  /\ lpc' = "done"
  /\ UNCHANGED <<storeVars, handlerVars, gone, authVars, catVars, query, found, past, histVars>>

\* GET /api/v1/transactions once more with the parameters of the request
\* that was just answered
ListResend ==
  /\ lpc = "done" /\ Len(past) + 1 < MaxReads
  /\ past' = Append(past, found)
  /\ lpc' = "find"
  /\ found' = << >>
  /\ result' = NoResult
  /\ UNCHANGED <<storeVars, handlerVars, gone, authVars, catVars, query, histVars>>

\* ---------------------------------------------------- the history handler
\* a history that is filtered as a list is
HistoryFilterFromQuery(q) == q

\* getTransactionHistory, line 293: Transaction.find({}), whatever req.query
\* holds
HistoryFilter(q) == NoQuery

\* GET /api/v1/transactions/history, once in a behaviour, with any
\* parameters in its query string
HistoryStart(T, P, U, D, PG, LM) ==
  /\ hpc = "idle"
  /\ \E t \in T, p \in P, u \in U, sd \in D, ed \in D, pg \in PG, lm \in LM :
       hquery' = [type |-> t, product |-> p, user |-> u, startDate |-> sd,
                  endDate |-> ed, page |-> pg, limit |-> lm]
  /\ hpc' = "find"
  /\ UNCHANGED <<storeVars, handlerVars, gone, authVars, catVars, listVars, hist, hpast>>

\* getTransactionHistory, lines 293-300: find, sort, then the response
HistoryFind ==
  /\ hpc = "find"
  /\ \E s \in SortedByDate(Matching(HistoryFilter(hquery))) :
       hist' = [count |-> Len(s), data |-> s]
  /\ hpc' = "done"
  /\ UNCHANGED <<storeVars, handlerVars, gone, authVars, catVars, listVars, hquery, hpast>>

\* GET /api/v1/transactions/history once more
HistoryResend ==
  /\ hpc = "done" /\ Len(hpast) + 1 < MaxReads
  /\ hpast' = Append(hpast, hist.data)
  /\ hpc' = "find"
  /\ hist' = NoHistory
  /\ UNCHANGED <<storeVars, handlerVars, gone, authVars, catVars, listVars, hquery>>

\* ------------------------------------------------------- specifications
InitHandlers ==
  /\ pc = [r \in Reqs |-> "idle"]
  /\ op = [r \in Reqs |-> NoOp]
  /\ loc = [r \in Reqs |-> NoLoc]
  /\ wrTx = [r \in Reqs |-> NoTxWrite]
  /\ wrProd = [r \in Reqs |-> NoProdWrite]
  /\ stale = [r \in Reqs |-> [p |-> {}, t |-> {}]]
  /\ resp = [r \in Reqs |-> "none"]
  /\ fwd = [r \in Reqs |-> "none"]
  /\ err = [r \in Reqs |-> NoErr]
  /\ committed = [r \in Reqs |-> FALSE]
  /\ faults = 0
  /\ started = 0
  /\ gone = {}
  /\ InitNoList

InitRequests == InitHandlers /\ InitNoAuth /\ InitNoCategories

\* one product in stock, no transactions; "p2" names no stored product
Init ==
  /\ \E q \in 0..InitMax :
       prod = [p \in ProductIds |-> IF p = "p1"
                 THEN [quantity |-> q, exists |-> TRUE, price |-> MaxPrice]
                 ELSE NoProduct]
  /\ initial = [p \in ProductIds |-> prod[p].quantity]
  /\ txns = << >>
  /\ usedIds = {}
  /\ InitRequests

\* concurrent callers
Next ==
  \E r \in Reqs :
    \/ BeginCreate(r, {"p1"}, {Undefined})
    \/ BeginUpdate(r, TxIds, {""}, {Undefined})
    \/ BeginDelete(r, TxIds)
    \/ CreateRead(r) \/ UpdateRead(r) \/ DeleteRead(r)
    \/ CreateInsert(r) \/ UpdatePatch(r) \/ DeleteRemove(r)
    \/ CreateWriteProduct(r) \/ UpdateWriteProduct(r) \/ DeleteWriteProduct(r)
    \/ CreateRespond(r)
    \/ Commit(r)
    \/ StoreFault(r)
    \/ Catch(r)

Spec == Init /\ [][Next]_vars

\* the steps an invoked handler takes by itself: every await of the handler
\* resumes once the store has answered
HandlerStep(r) ==
  \/ CreateRead(r) \/ UpdateRead(r) \/ DeleteRead(r)
  \/ CreateInsert(r) \/ UpdatePatch(r) \/ DeleteRemove(r)
  \/ CreateWriteProduct(r) \/ UpdateWriteProduct(r) \/ DeleteWriteProduct(r)
  \/ CreateRespond(r)
  \/ Commit(r)
  \/ Catch(r)

\* concurrent callers on an event loop that resumes every pending handler;
\* the store fails a bounded number of calls
SpecFair == Init /\ [][Next]_vars /\ \A r \in Reqs : WF_vars(HandlerStep(r))

\* two callers race for the whole stock of one product: both requests have
\* been received and each asks for an output of everything in stock
InitRace ==
  /\ \E q \in 1..MaxQty :
       /\ prod = [p \in ProductIds |-> IF p = "p1"
                    THEN [quantity |-> q, exists |-> TRUE, price |-> MaxPrice]
                    ELSE NoProduct]
       /\ op = [r \in Reqs |-> [type |-> "output", product |-> "p1",
                                quantity |-> q, user |-> "u1",
                                notes |-> Undefined, kind |-> "create", id |-> 0]]
  /\ initial = [p \in ProductIds |-> prod[p].quantity]
  /\ txns = << >>
  /\ usedIds = {}
  /\ pc = [r \in Reqs |-> "read"]
  /\ loc = [r \in Reqs |-> NoLoc]
  /\ wrTx = [r \in Reqs |-> NoTxWrite]
  /\ wrProd = [r \in Reqs |-> NoProdWrite]
  /\ stale = [r \in Reqs |-> [p |-> {}, t |-> {}]]
  /\ resp = [r \in Reqs |-> "none"]
  /\ fwd = [r \in Reqs |-> "none"]
  /\ err = [r \in Reqs |-> NoErr]
  /\ committed = [r \in Reqs |-> FALSE]
  /\ faults = 0
  /\ started = MaxReq
  /\ gone = {}
  /\ InitNoList
  /\ InitNoAuth
  /\ InitNoCategories

NextRace ==
  \E r \in Reqs :
    \/ CreateRead(r)
    \/ CreateInsert(r)
    \/ CreateWriteProduct(r)
    \/ CreateRespond(r)
    \/ Commit(r)
    \/ StoreFault(r)
    \/ Catch(r)

SpecRace == InitRace /\ [][NextRace]_vars

\* one caller creates a movement on a product and deletes it right away
InitRoundTrip ==
  /\ \E q \in 0..(InitMax + MaxQty) :
       prod = [p \in ProductIds |-> IF p = "p1"
                 THEN [quantity |-> q, exists |-> TRUE, price |-> MaxPrice]
                 ELSE NoProduct]
  /\ initial = [p \in ProductIds |-> prod[p].quantity]
  /\ txns = << >>
  /\ usedIds = {}
  /\ InitRequests

NextRoundTrip ==
  \E r \in {1} :
    \/ started = 0 /\ BeginCreate(r, {"p1"}, {Undefined})
    \/ started = 1 /\ committed[r] /\ BeginDelete(r, DOMAIN txns)
    \/ CreateRead(r) \/ CreateInsert(r) \/ CreateWriteProduct(r)
    \/ CreateRespond(r)
    \/ DeleteRead(r) \/ DeleteRemove(r) \/ DeleteWriteProduct(r)
    \/ Commit(r)
    \/ StoreFault(r)
    \/ Catch(r)

SpecRoundTrip == InitRoundTrip /\ [][NextRoundTrip]_vars

\* a caller, as either user, creates movements one after the other, with
\* and without notes, on a product whose stock may cover them
NextCreate ==
  \E r \in {1} :
    \/ BeginCreateAs(r, {"p1"}, OptNotes, ListUsers)
    \/ CreateRead(r)
    \/ CreateInsert(r)
    \/ CreateWriteProduct(r)
    \/ CreateRespond(r)
    \/ Commit(r)
    \/ StoreFault(r)
    \/ Catch(r)

SpecCreate == InitRoundTrip /\ [][NextCreate]_vars

\* one movement on "p1", made by either user, is stored and both products
\* exist; a caller sends an
\* update of it and, once that update has committed, the same update again:
\* request 1 has been received, request 2 is the copy the caller sends next
InitTwice ==
  /\ \E i1 \in 0..InitMax, q2 \in 0..InitMax, t0 \in Types, n0 \in 1..MaxQty,
        u0 \in ListUsers, nt0 \in NoteVals :
       /\ i1 + Effect(t0, n0) >= 0
       /\ initial = [p \in ProductIds |-> IF p = "p1" THEN i1 ELSE q2]
       /\ prod = [p \in ProductIds |-> IF p = "p1"
                    THEN [quantity |-> i1 + Effect(t0, n0), exists |-> TRUE, price |-> MaxPrice]
                    ELSE [quantity |-> q2, exists |-> TRUE, price |-> MaxPrice]]
       /\ txns = [i \in {1} |-> [type |-> t0, product |-> "p1", quantity |-> n0,
                                 user |-> u0, notes |-> nt0, date |-> 1]]
  /\ usedIds = {1}
  /\ \E t \in OptTypes, p \in OptProducts, n \in 0..MaxQty, nt \in OptNotes :
       op = [r \in Reqs |-> [type |-> t, product |-> p, quantity |-> n,
                              user |-> "u1", notes |-> nt, kind |-> "update",
                              id |-> 1]]
  /\ pc = [r \in Reqs |-> IF r = 1 THEN "read" ELSE "idle"]
  /\ loc = [r \in Reqs |-> NoLoc]
  /\ wrTx = [r \in Reqs |-> NoTxWrite]
  /\ wrProd = [r \in Reqs |-> NoProdWrite]
  /\ stale = [r \in Reqs |-> [p |-> {}, t |-> {}]]
  /\ resp = [r \in Reqs |-> "none"]
  /\ fwd = [r \in Reqs |-> "none"]
  /\ err = [r \in Reqs |-> NoErr]
  /\ committed = [r \in Reqs |-> FALSE]
  /\ faults = 0
  /\ started = 1
  /\ gone = {}
  /\ InitNoList
  /\ InitNoAuth
  /\ InitNoCategories

\* PUT /api/v1/transactions/:id once more, with the payload of request 1
Resend(r) ==
  /\ r = 2 /\ pc[r] = "idle"
  /\ pc[1] = "done" /\ committed[1]
  /\ Start(r, op[r])

NextTwice ==
  \E r \in Reqs :
    \/ Resend(r)
    \/ UpdateRead(r)
    \/ UpdatePatch(r)
    \/ UpdateWriteProduct(r)
    \/ Commit(r)
    \/ StoreFault(r)
    \/ Catch(r)

SpecTwice == InitTwice /\ [][NextTwice]_vars

\* one caller of the transaction handlers at a time, on either product id,
\* while the product handlers are called in between its steps
NextProducts ==
  \/ \E p \in ProductIds, q \in 0..InitMax :
        \/ CreateProduct(p, q)
        \/ UpdateProduct(p, q)
        \/ DeleteProduct(p)
  \/ \E r \in {1} :
        \/ BeginCreate(r, ProductIds, {Undefined})
        \/ BeginUpdate(r, TxIds, OptProducts, {Undefined})
        \/ BeginDelete(r, TxIds)
        \/ CreateRead(r) \/ UpdateRead(r) \/ DeleteRead(r)
        \/ CreateInsert(r) \/ UpdatePatch(r) \/ DeleteRemove(r)
        \/ CreateWriteProduct(r) \/ UpdateWriteProduct(r) \/ DeleteWriteProduct(r)
        \/ CreateRespond(r)
        \/ Commit(r)
        \/ StoreFault(r)
        \/ Catch(r)

SpecProducts == Init /\ [][NextProducts]_vars

RECURSIVE SumEffects(_, _)
\* the stock effect of the stored movements of ids that reference product p
SumEffects(ids, p) ==
  IF ids = {} THEN 0
  ELSE LET i == CHOOSE x \in ids : TRUE
       IN (IF txns[i].product = p THEN Effect(txns[i].type, txns[i].quantity) ELSE 0)
          + SumEffects(ids \ {i}, p)

\* a ledger of up to n movements of one unit each, of the types T, on the
\* products P, by the users U, of any dates (the clock of a server may be
\* set back); the products P are stored, with a stock that covers the
\* movements
LedgerStore(n, T, P, U) ==
  /\ \E k \in 0..n :
       txns \in [1..k -> [type : T, product : P, quantity : {1}, user : U,
                          notes : {""}, date : Dates]]
  /\ usedIds = DOMAIN txns
  /\ initial = [p \in ProductIds |-> IF p \in P THEN Cardinality(usedIds) ELSE 0]
  /\ prod = [p \in ProductIds |->
               IF p \in P
                 THEN [quantity |-> initial[p] + SumEffects(DOMAIN txns, p),
                       exists |-> TRUE, price |-> MaxPrice]
                 ELSE NoProduct]

\* no handler is running
InitLedger(n, T, P, U) == LedgerStore(n, T, P, U) /\ InitRequests

\* lists are paged through a ledger of one product and one user
InitList == InitLedger(MaxDocs, Types, {"p1"}, {"u1"})

NextList ==
  \/ ListStart({"input", ""}, {""}, {""}, {0}, 0..MaxPage, 0..MaxLimit)
  \/ ListFind
  \/ ListCount

SpecList == InitList /\ [][NextList]_vars

\* lists are filtered, with the default page and limit
InitFilter == InitLedger(FewDocs, Types, ProductIds, ListUsers)

NextFilter ==
  \/ ListStart(OptTypes, OptProducts, OptUsers, 0..MaxDate, {0}, {0})
  \/ ListFind
  \/ ListCount

SpecFilter == InitFilter /\ [][NextFilter]_vars

\* the same list request and the same history request are each sent twice
\* while no movement is written; the history request carries parameters
NextHistory ==
  \/ ListStart({""}, {""}, {""}, {0}, {0}, 0..MaxLimit)
  \/ ListFind
  \/ ListCount
  \/ ListResend
  \/ HistoryStart({"input", ""}, {""}, {""}, {0}, 0..1, 0..1)
  \/ HistoryFind
  \/ HistoryResend

SpecHistory == InitList /\ [][NextHistory]_vars

\* one list request is answered while a caller creates and deletes movements
\* of the listed product
InitListWhile == InitLedger(FewDocs, Types, {"p1"}, {"u1"})

NextListWhile ==
  \/ ListStart({""}, {""}, {""}, {0}, {0}, 0..MaxLimit)
  \/ ListFind
  \/ ListCount
  \/ \E r \in {1} :
       \/ BeginCreate(r, {"p1"}, {Undefined})
       \/ BeginDelete(r, TxIds)
       \/ CreateRead(r) \/ CreateInsert(r) \/ CreateWriteProduct(r)
       \/ CreateRespond(r)
       \/ DeleteRead(r) \/ DeleteRemove(r) \/ DeleteWriteProduct(r)
       \/ Commit(r)
       \/ Catch(r)

SpecListWhile == InitListWhile /\ [][NextListWhile]_vars

\* one category is deleted while products are created, updated and deleted
InitCategories ==
  /\ \E q \in 0..InitMax :
       prod = [p \in ProductIds |-> IF p = "p1"
                 THEN [quantity |-> q, exists |-> TRUE, price |-> MaxPrice]
                 ELSE NoProduct]
  /\ initial = [p \in ProductIds |-> prod[p].quantity]
  /\ txns = << >>
  /\ usedIds = {}
  /\ InitHandlers
  /\ InitNoAuth
  /\ \E c \in CategoryNames :
       category = [p \in ProductIds |-> IF prod[p].exists THEN c ELSE ""]
  /\ categories \in [CategoryNames -> BOOLEAN]
  /\ cpc = "idle"
  /\ cid = ""
  /\ cresp = "none"

NextCategories ==
  \/ \E c \in CategoryNames : DeleteCategoryStart(c)
  \/ DeleteCategoryFind
  \/ DeleteCategoryCheck
  \/ DeleteCategoryRemove
  \/ \E p \in ProductIds, q \in 0..InitMax :
       \/ CreateProductIn(p, q, CategoryNames)
       \/ UpdateProductIn(p, q, CategoryNames)
       \/ DeleteProduct(p)

SpecCategories == InitCategories /\ [][NextCategories]_vars

\* requests with every kind of credentials arrive at the routers while the
\* users named by the tokens are stored or not, active or not; at most one
\* movement is stored
InitAuth ==
  /\ LedgerStore(1, Types, {"p1"}, {"u1"})
  /\ InitHandlers
  /\ apc = [r \in Reqs |-> "idle"]
  /\ creds = [r \in Reqs |-> NoCreds]
  /\ users \in [AuthUsers -> [exists : BOOLEAN, isActive : BOOLEAN]]
  /\ InitNoCategories
  /\ users["u3"].exists = FALSE
  /\ \A a \in AuthUsers : users[a].isActive => users[a].exists

NextAuth ==
  \E r \in {1} :
    \/ AuthReceive(r)
    \/ AuthFindUser(r)
    \/ /\ Routed(r, "transactions")
       /\ \/ BeginCreateAs(r, {"p1"}, {Undefined}, {ReqUser(r)})
          \/ BeginUpdateAs(r, TxIds, {""}, {Undefined}, {ReqUser(r)})
          \/ BeginDeleteAs(r, TxIds, {ReqUser(r)})
    \/ /\ Routed(r, "products")
       /\ \E p \in ProductIds, q \in 0..InitMax :
            \/ CreateProduct(p, q)
            \/ UpdateProduct(p, q)
            \/ DeleteProduct(p)
    \/ /\ Routed(r, "list")
       /\ ListStart({"input", ""}, {""}, {""}, {0}, {0}, {0})
    \/ /\ Routed(r, "history")
       /\ HistoryStart({""}, {""}, {""}, {0}, {0}, {0})
    \/ ListFind \/ ListCount \/ HistoryFind
    \/ CreateRead(r) \/ UpdateRead(r) \/ DeleteRead(r)
    \/ CreateInsert(r) \/ UpdatePatch(r) \/ DeleteRemove(r)
    \/ CreateWriteProduct(r) \/ UpdateWriteProduct(r) \/ DeleteWriteProduct(r)
    \/ CreateRespond(r)
    \/ Commit(r)
    \/ StoreFault(r)
    \/ Catch(r)

SpecAuth == InitAuth /\ [][NextAuth]_vars

\* ------------------------------------------------------------ properties

\* C1: after any sequence of create / update / delete calls, successful or
\* failed, the product's quantity is its initial quantity plus the stored
\* inputs minus the stored outputs that reference it
C1_LedgerBalance ==
  \A p \in ProductIds :
    prod[p].exists => prod[p].quantity = initial[p] + SumEffects(DOMAIN txns, p)

\* a movement was amended by a committed update while the ledger is not empty
\* and the stock differs from the initial stock
C1_Witness ==
  \E r \in Reqs :
    /\ pc[r] = "done" /\ op[r].kind = "update" /\ committed[r]
    /\ txns # << >>
    /\ prod["p1"].quantity # initial["p1"]

\* C2: in every committed state every product's quantity is at least 0
C2_NonNegative == \A p \in ProductIds : prod[p].quantity >= 0

\* an update whose effective type is input was stopped only by the product
\* schema's validator
C2_Witness ==
  \E r \in Reqs :
    /\ pc[r] = "done" /\ op[r].kind = "update" /\ fwd[r] = "Validation"

\* C3: of two concurrent output creates that each request the whole stock
\* at most one commits; the stock never goes below 0, and when both calls
\* are over and the store did not fail, exactly one committed, every other
\* was answered InsufficientStock and the stock is 0
C3_OneWinner ==
  /\ Cardinality({r \in Reqs : committed[r]}) <= 1
  /\ prod["p1"].quantity >= 0
  /\ ((\A r \in Reqs : pc[r] = "done") /\ faults = 0)
       => /\ Cardinality({r \in Reqs : committed[r]}) = 1
          /\ \A r \in Reqs : ~committed[r] => resp[r] = "InsufficientStock"
          /\ prod["p1"].quantity = 0

\* both calls are over: one committed and one was refused
C3_Witness ==
  /\ \A r \in Reqs : pc[r] = "done"
  /\ faults = 0
  /\ \E r, s \in Reqs : committed[r] /\ resp[s] = "InsufficientStock"

\* the quantity a handler computes for its product from the stored movement
\* tx and the product quantity pq
SerialQuantity(o, tx, pq) ==
  IF o.kind = "create" THEN CreateNewQuantity(o.type, pq, o.quantity)
  ELSE IF o.kind = "update" THEN UpdateNewQuantity(o, tx, pq)
  ELSE RevertedQuantity(tx, pq)

\* C4: no lost update. When a scope commits, the product quantity and the
\* movement it read are still the committed ones, and the commit changes
\* the committed state exactly as the operation run alone on it would
C4_NoLostUpdate ==
  [][\A r \in Reqs :
       (pc[r] = "commit" /\ pc'[r] = "done") =>
         /\ loc[r].pq = prod[loc[r].pid].quantity
         /\ FindTx(op[r].id) = loc[r].tx
         /\ prod'[loc[r].pid].quantity =
              SerialQuantity(op[r], FindTx(op[r].id), prod[loc[r].pid].quantity)
         /\ \A p \in ProductIds \ {loc[r].pid} : prod'[p] = prod[p]
         /\ \A i \in (DOMAIN txns \cup DOMAIN txns') \ {wrTx[r].id} :
              i \in DOMAIN txns /\ i \in DOMAIN txns' /\ txns'[i] = txns[i]]_vars

\* a scope committed a write to a product that another running scope had
\* already read
C4_Witness ==
  \E r, s \in Reqs :
    /\ r # s /\ pc[r] = "done" /\ committed[r]
    /\ InScope(s) /\ loc[s].pid \in stale[s].p

\* C5: the committed collections change only when a scope commits, and a
\* scope that fails or is restarted after its Transaction write loses every
\* write it made: the transaction collection and every product quantity are
\* as they were
C5_FailureRollsBack ==
  [][/\ (txns' # txns \/ prod' # prod)
          => \E r \in Reqs : pc[r] = "commit" /\ pc'[r] = "done" /\ committed'[r]
     /\ \A r \in Reqs :
          (pc[r] \in {"writeProd", "populate", "commit"} /\ pc'[r] \in {"catch", "read"})
            => /\ txns' = txns /\ prod' = prod
               /\ wrTx'[r] = NoTxWrite /\ wrProd'[r] = NoProdWrite]_vars

\* the Product write of an update was rejected after its Transaction write
C5_Witness ==
  \E r \in Reqs :
    pc[r] = "catch" /\ op[r].kind = "update" /\ err[r].kind = "Validation"

\* request r takes the step of its scope body that reads and checks
ReadStep(r) == pc[r] = "read" /\ pc'[r] # "read" /\ faults' = faults

\* C6: a create of an output larger than the product's quantity fails with
\* InsufficientStock, which its handler answers, and neither the product
\* nor the transaction collection changes
C6_CreateInsufficientStock ==
  [][\A r \in Reqs :
       /\ (/\ ReadStep(r) /\ op[r].kind = "create" /\ op[r].type = "output"
           /\ prod[op[r].product].exists
           /\ op[r].quantity > prod[op[r].product].quantity)
            => /\ pc'[r] = "catch" /\ err'[r].kind = "InsufficientStock"
               /\ wrTx'[r] = NoTxWrite /\ wrProd'[r] = NoProdWrite
               /\ txns' = txns /\ prod' = prod
       /\ (/\ pc[r] = "catch" /\ pc'[r] = "done" /\ op[r].kind = "create"
           /\ err[r].kind = "InsufficientStock")
            => /\ resp[r] = "none" => resp'[r] = "InsufficientStock"
               /\ ~committed'[r]
               /\ txns' = txns /\ prod' = prod]_vars

\* a create was answered InsufficientStock
C6_Witness ==
  \E r \in Reqs :
    pc[r] = "done" /\ op[r].kind = "create" /\ resp[r] = "InsufficientStock"

\* C7: an update whose recomputed product quantity would be negative fails
\* with InsufficientStock and leaves the transaction and the product unchanged
C7_UpdateInsufficientStock ==
  [][\A r \in Reqs :
       (/\ ReadStep(r) /\ op[r].kind = "update"
        /\ TxFound(FindTx(op[r].id))
        /\ prod[OrStr(op[r].product, FindTx(op[r].id).product)].exists
        /\ UpdateNewQuantity(op[r], FindTx(op[r].id),
             prod[OrStr(op[r].product, FindTx(op[r].id).product)].quantity) < 0)
         => /\ pc'[r] = "catch" /\ err'[r].kind = "InsufficientStock"
            /\ txns' = txns /\ prod' = prod]_vars

\* C8: a delete whose reverted product quantity would be negative fails with
\* NegativeStockViolation, which its handler answers, and neither the
\* transaction nor the product changes
C8_DeleteNegativeStock ==
  [][\A r \in Reqs :
       /\ (/\ ReadStep(r) /\ op[r].kind = "delete"
           /\ TxFound(FindTx(op[r].id))
           /\ prod[FindTx(op[r].id).product].exists
           /\ RevertedQuantity(FindTx(op[r].id),
                               prod[FindTx(op[r].id).product].quantity) < 0)
            => /\ pc'[r] = "catch" /\ err'[r].kind = "NegativeStock"
               /\ wrTx'[r] = NoTxWrite /\ wrProd'[r] = NoProdWrite
               /\ txns' = txns /\ prod' = prod
       /\ (/\ pc[r] = "catch" /\ pc'[r] = "done" /\ op[r].kind = "delete"
           /\ err[r].kind = "NegativeStock")
            => /\ resp[r] = "none" => resp'[r] = "NegativeStock"
               /\ ~committed'[r]
               /\ txns' = txns /\ prod' = prod]_vars

\* a delete was answered NegativeStockViolation
C8_Witness ==
  \E r \in Reqs :
    pc[r] = "done" /\ op[r].kind = "delete" /\ resp[r] = "NegativeStock"

\* C9: a caller holds a success response only for a scope that committed
C9_SuccessOnlyAfterCommit ==
  \A r \in Reqs : (pc[r] = "done" /\ resp[r] = "success") => committed[r]

\* C10: a create that succeeded on a product of quantity q and is deleted
\* right away: the delete succeeds, the record is gone and the quantity is q
C10_RoundTrip ==
  \A r \in Reqs :
    (started = 2 /\ pc[r] = "done" /\ op[r].kind = "delete" /\ faults = 0)
      => /\ resp[r] = "success" /\ committed[r]
         /\ txns = << >>
         /\ prod["p1"].quantity = initial["p1"]

\* the delete of the round trip committed
C10_Witness ==
  \E r \in Reqs :
    /\ started = 2 /\ pc[r] = "done" /\ op[r].kind = "delete" /\ faults = 0
    /\ committed[r] /\ usedIds # {}

\* C11: a successful update that keeps the movement's product sets the
\* product's quantity to q - effect(original) + effect(new), q being the
\* quantity when the update is applied; a type or quantity the payload does
\* not carry is the original's
C11_UpdateArithmetic ==
  [][\A r \in Reqs :
       (/\ pc[r] = "commit" /\ pc'[r] = "done" /\ op[r].kind = "update"
        /\ TxFound(FindTx(op[r].id))
        /\ loc[r].pid = FindTx(op[r].id).product)
         => LET orig == FindTx(op[r].id)
                q == prod[orig.product].quantity
                t == IF op[r].type \in Types THEN op[r].type ELSE orig.type
                n == IF op[r].quantity >= 1 THEN op[r].quantity ELSE orig.quantity
            IN prod'[orig.product].quantity =
                 q - Effect(orig.type, orig.quantity) + Effect(t, n)]_vars

\* an update raised the only movement, an input, to the largest quantity
C11_Witness ==
  \E r \in Reqs :
    /\ pc[r] = "done" /\ op[r].kind = "update" /\ committed[r]
    /\ started = 2 /\ DOMAIN txns = {1}
    /\ txns[1].type = "input" /\ txns[1].quantity = MaxQty
    /\ prod["p1"].quantity = initial["p1"] + MaxQty

\* C12: an update applied a second time with the same payload succeeds and
\* leaves every product quantity and the movement's type, product, quantity
\* and notes as the first application left them
C12_UpdateTwice ==
  [][/\ (pc[2] = "commit" /\ pc'[2] = "done") => (txns' = txns /\ prod' = prod)
     /\ (pc'[2] = "done" /\ faults' = 0)
          => (resp'[2] = "success" /\ committed'[2])]_vars

\* the second application committed after the first had moved the movement
\* to the other product with another type, quantity and notes
C12_Witness ==
  /\ pc[2] = "done" /\ committed[2] /\ faults = 0
  /\ txns[1].product = "p2" /\ txns[1].notes = "n"
  /\ prod["p2"].quantity # initial["p2"]

\* a movement that was stored and has been deleted
Deleted(i) == i \in usedIds /\ i \notin DOMAIN txns

\* C13: deleted is terminal. A deleted id is never stored again; an update
\* or delete that looks up a deleted id fails with TransactionNotFound,
\* which its handler answers, and changes neither the transaction
\* collection nor any product quantity
C13_DeletedIsTerminal ==
  [][/\ \A i \in TxIds : Deleted(i) => i \notin DOMAIN txns'
     /\ \A r \in Reqs :
          /\ (/\ ReadStep(r) /\ op[r].kind \in {"update", "delete"}
              /\ Deleted(op[r].id))
               => /\ pc'[r] = "catch" /\ err'[r].kind = "TransactionNotFound"
                  /\ wrTx'[r] = NoTxWrite /\ wrProd'[r] = NoProdWrite
                  /\ txns' = txns /\ prod' = prod
          /\ (/\ pc[r] = "catch" /\ pc'[r] = "done"
              /\ op[r].kind \in {"update", "delete"}
              /\ err[r].kind = "TransactionNotFound")
               => /\ resp[r] = "none" => resp'[r] = "TransactionNotFound"
                  /\ ~committed'[r]
                  /\ txns' = txns /\ prod' = prod]_vars

\* a delete of an id that had been deleted before was refused
C13_Witness ==
  \E r \in Reqs :
    /\ pc[r] = "catch" /\ op[r].kind = "delete" /\ Deleted(op[r].id)
    /\ err[r].kind = "TransactionNotFound"

\* the product id a handler resolves for its request
Resolved(o) ==
  IF o.kind = "create" THEN o.product
  ELSE IF o.kind = "update" THEN OrStr(o.product, FindTx(o.id).product)
  ELSE FindTx(o.id).product

\* C14: a create, update or delete whose product id (for an update the
\* payload's if given, else the movement's; for a delete the movement's)
\* names no stored product fails with ProductNotFound, which its handler
\* answers; no movement is inserted, modified or deleted and no product
\* quantity changes
C14_ProductNotFound ==
  [][\A r \in Reqs :
       /\ (/\ ReadStep(r)
           /\ op[r].kind = "create" \/ TxFound(FindTx(op[r].id))
           /\ ~prod[Resolved(op[r])].exists)
            => /\ pc'[r] = "catch" /\ err'[r].kind = "ProductNotFound"
               /\ wrTx'[r] = NoTxWrite /\ wrProd'[r] = NoProdWrite
               /\ txns' = txns /\ prod' = prod
       /\ (pc[r] = "catch" /\ pc'[r] = "done" /\ err[r].kind = "ProductNotFound")
            => /\ resp[r] = "none" => resp'[r] = "ProductNotFound"
               /\ ~committed'[r]
               /\ txns' = txns /\ prod' = prod]_vars

\* a delete was refused because the product of its movement had been deleted
C14_Witness ==
  \E r \in Reqs :
    /\ pc[r] = "catch" /\ op[r].kind = "delete" /\ err[r].kind = "ProductNotFound"
    /\ TxFound(FindTx(op[r].id)) /\ FindTx(op[r].id).product \in gone

\* C16: every stored movement references a stored product
C16_NoOrphans == \A i \in DOMAIN txns : prod[txns[i].product].exists

\* C15: an InsufficientStock failure carries the available and the
\* requested amount. From a create: the product's quantity read in the
\* scope and the requested quantity; from an update: the quantity with the
\* stored movement reverted and the effective new quantity. The failure
\* reaches the catch block as it was raised
C15_InsufficientStockAmounts ==
  [][\A r \in Reqs :
       /\ (ReadStep(r) /\ err'[r].kind = "InsufficientStock" /\ op[r].kind = "create")
            => /\ err'[r].available = prod[op[r].product].quantity
               /\ err'[r].requested = op[r].quantity
       /\ (ReadStep(r) /\ err'[r].kind = "InsufficientStock" /\ op[r].kind = "update")
            => LET orig == FindTx(op[r].id)
               IN /\ err'[r].available =
                       prod[Resolved(op[r])].quantity - Effect(orig.type, orig.quantity)
                  /\ err'[r].requested =
                       IF op[r].quantity >= 1 THEN op[r].quantity ELSE orig.quantity
       /\ (pc[r] = "catch" /\ pc'[r] = "catch") => err'[r] = err[r]]_vars

\* an update to an output of 2 was refused with 1 available
C15_Witness ==
  \E r \in Reqs :
    /\ pc[r] = "catch" /\ op[r].kind = "update"
    /\ err[r] = InsufficientStock(1, 2)

\* C17: every stored movement has an integer quantity of at least 1 and a
\* type that is input or output
C17_ValidTransactions ==
  \A i \in DOMAIN txns :
    /\ txns[i].quantity \in Nat /\ txns[i].quantity >= 1
    /\ txns[i].type \in Types

\* an update whose payload carries neither type nor quantity has written
\* its patch, which holds the stored movement's values, and has committed
C17_Witness ==
  \E r, s \in Reqs :
    /\ pc[r] = "done" /\ op[r].kind = "update" /\ committed[r] /\ txns # << >>
    /\ pc[s] = "commit" /\ op[s].kind = "update"
    /\ op[s].type = "" /\ op[s].quantity = 0
    /\ wrTx[s].doc.quantity >= 1 /\ wrTx[s].doc.type \in Types

\* every order of the ids of a set
Orderings(ids) ==
  {s \in [1..Cardinality(ids) -> ids] :
     \A a, b \in 1..Cardinality(ids) : a # b => s[a] # s[b]}

\* most recent first
DateDescending(s) ==
  \A a, b \in 1..Len(s) : a < b => txns[s[a]].date >= txns[s[b]].date

\* C18: a list returns at most limit records: the records at the positions
\* skip+1 .. skip+limit (counted from 1) of the filtered result sorted by
\* date descending, with skip = (page-1)*limit, page 1 and limit 10 when
\* the request carries none
C18_Pagination ==
  lpc \in {"done", "counting"} =>
    LET limit == IF query.limit = 0 THEN 10 ELSE query.limit
        page  == IF query.page = 0 THEN 1 ELSE query.page
        skip  == (page - 1) * limit
    IN /\ Len(found) <= limit
       /\ \E s \in Orderings(Matching(query)) :
            /\ DateDescending(s)
            /\ Len(found) = Cardinality({k \in 1..limit : skip + k <= Len(s)})
            /\ \A k \in 1..Len(found) : found[k] = s[skip + k]

\* the second page of two records was read from three matching movements,
\* two of them of one date
C18_Witness ==
  /\ lpc = "done" /\ query.page = 2 /\ query.limit = 2
  /\ Cardinality(Matching(query)) = 3 /\ Len(found) = 1
  /\ \E i, j \in Matching(query) : i # j /\ txns[i].date = txns[j].date

\* C19: in a list response totalCount is the number of stored movements the
\* filters match, whatever page and limit are; totalPages is
\* ceil(totalCount / limit), and currentPage is the requested page
C19_Totals ==
  lpc = "done" =>
    LET limit == IF query.limit = 0 THEN 10 ELSE query.limit
    IN /\ result.totalCount = Cardinality(Matching(query))
       /\ result.totalPages * limit >= result.totalCount
       /\ result.totalPages >= 0
       /\ result.totalPages > 0
            => (result.totalPages - 1) * limit < result.totalCount
       /\ result.currentPage = (IF query.page = 0 THEN 1 ELSE query.page)
       /\ result.count = Len(result.data) /\ result.data = found

\* three matches listed with limit 2, page 1: two items, two pages
C19_Witness ==
  /\ lpc = "done" /\ query.page = 1 /\ query.limit = 2
  /\ result.count = 2 /\ result.totalCount = 3 /\ result.totalPages = 2

\* C20: the filters are optional and conjunctive: a stored movement is
\* matched iff it satisfies every filter the request carries, the date
\* range includes both ends, and an absent filter excludes nothing
C20_Filters ==
  lpc = "done" =>
    LET wanted == {i \in DOMAIN txns :
                     /\ query.type \in Types => txns[i].type = query.type
                     /\ query.product \in ProductIds
                          => txns[i].product = query.product
                     /\ query.user \in ListUsers => txns[i].user = query.user
                     /\ query.startDate \in Dates
                          => query.startDate <= txns[i].date
                     /\ query.endDate \in Dates
                          => txns[i].date <= query.endDate}
    IN /\ {found[k] : k \in 1..Len(found)} = wanted
       /\ result.totalCount = Cardinality(wanted)

\* a list with all five filters, the two dates equal, matched one of two
\* stored movements
C20_Witness ==
  /\ lpc = "done"
  /\ query.type \in Types /\ query.product \in ProductIds
  /\ query.user \in ListUsers
  /\ query.startDate \in Dates /\ query.endDate = query.startDate
  /\ Len(found) = 1 /\ Cardinality(DOMAIN txns) = 2

\* C21: the list and the history are ordered by date descending, and two
\* reads of the same unchanged store with the same parameters return the
\* same sequence
C21_DeterministicOrder ==
  /\ lpc \in {"done", "counting"}
       => /\ DateDescending(found)
          /\ \A k \in 1..Len(past) : past[k] = found
  /\ hpc = "done"
       => /\ DateDescending(hist.data)
          /\ \A k \in 1..Len(hpast) : hpast[k] = hist.data

\* C22: the history returns every stored movement, whatever parameters the
\* request carries, by date descending, and its count is the number of
\* stored movements
C22_History ==
  hpc = "done" =>
    /\ {hist.data[k] : k \in 1..Len(hist.data)} = DOMAIN txns
    /\ Len(hist.data) = Cardinality(DOMAIN txns)
    /\ DateDescending(hist.data)
    /\ hist.count = Cardinality(DOMAIN txns)

\* a history request that carried a type, a page and a limit was answered
\* with all of the stored movements, one of them of another type
C22_Witness ==
  /\ hpc = "done"
  /\ hquery.type = "input" /\ hquery.page = 1 /\ hquery.limit = 1
  /\ hist.count = MaxDocs
  /\ \E i \in DOMAIN txns : txns[i].type = "output"

\* a token that verifies, is not expired and names a stored, active user
ValidToken(tok) ==
  /\ tok \in Jwts /\ tok \notin {"jwtExpired", "jwtForged"}
  /\ users[DecodedId(tok)].exists /\ users[DecodedId(tok)].isActive

\* the request carries such a token, as a Bearer header or as its cookie
Authentic(r) ==
  \/ creds[r].scheme = "Bearer" /\ ValidToken(creds[r].token)
  \/ ValidToken(creds[r].cookie)

C24_QuantityOnlyByMovements ==
  [][\A p \in ProductIds :
       (prod[p].exists /\ prod'[p].exists /\ prod'[p].quantity # prod[p].quantity)
         => \E r \in Reqs :
              /\ pc[r] = "commit" /\ pc'[r] = "done" /\ committed'[r]
              /\ wrProd[r].pid = p]_vars

C27_CrossProductUpdate ==
  [][\A r \in Reqs :
       (/\ pc[r] = "commit" /\ pc'[r] = "done" /\ op[r].kind = "update"
        /\ op[r].id \in DOMAIN txns
        /\ op[r].product \in ProductIds
        /\ op[r].product # txns[op[r].id].product)
         => LET orig == txns[op[r].id]
                A == orig.product
                B == op[r].product
                t == IF op[r].type \in Types THEN op[r].type ELSE orig.type
                n == IF op[r].quantity >= 1 THEN op[r].quantity ELSE orig.quantity
            IN /\ prod'[B].quantity =
                    prod[B].quantity - Effect(orig.type, orig.quantity) + Effect(t, n)
               /\ prod'[A].quantity = prod[A].quantity
               /\ txns'[op[r].id].product = B]_vars

\* an update has moved the movement from the first product to the second:
\* the second product's quantity changed, the first still carries the effect
C27_Witness ==
  /\ pc[1] = "done" /\ committed[1] /\ pc[2] = "idle"
  /\ op[2].product = "p2" /\ txns[1].product = "p2"
  /\ prod["p2"].quantity # initial["p2"]
  /\ prod["p1"].quantity # initial["p1"]

\* C28: with two products, after any creates, updates and deletes, updates
\* that move a movement to another product included, each product's
\* quantity is its initial quantity plus the inputs minus the outputs of the
\* stored movements that reference it now
C28_LedgerBalanceAcrossProducts ==
  \A p \in ProductIds :
    prod[p].quantity - SumEffects(DOMAIN txns, p) = initial[p]

\* C29: a create, update or delete that is rejected for a business rule
\* (product or movement not found, insufficient stock, negative stock, a
\* product quantity below zero) is rejected before its scope has written:
\* no write to a movement or a product precedes the rejection
C29_RejectBeforeWrite ==
  [][\A r \in Reqs :
       (/\ pc[r] # "catch" /\ pc'[r] = "catch"
        /\ err'[r].kind \in {"InsufficientStock", "ProductNotFound",
                             "TransactionNotFound", "NegativeStock", "Validation"})
         => wrTx[r] = NoTxWrite /\ wrProd[r] = NoProdWrite]_vars

\* C30: a create on a stored product goes through iff its type is input or
\* its quantity is at most the product's quantity, an output of the whole
\* stock included; when it commits exactly one movement is added, with the
\* given type, product, quantity and notes and the calling user, and the
\* product's quantity becomes quantity + n for an input and quantity - n for
\* an output
C30_Create ==
  [][\A r \in Reqs :
       /\ (ReadStep(r) /\ op[r].kind = "create" /\ prod[op[r].product].exists)
            => IF op[r].type = "input"
                    \/ op[r].quantity <= prod[op[r].product].quantity
                 THEN pc'[r] = "writeTx"
                 ELSE pc'[r] = "catch" /\ err'[r].kind = "InsufficientStock"
       /\ (pc[r] = "commit" /\ pc'[r] = "done" /\ op[r].kind = "create")
            => /\ \E i \in TxIds \ DOMAIN txns :
                    /\ DOMAIN txns' = DOMAIN txns \cup {i}
                    /\ txns'[i].type = op[r].type
                    /\ txns'[i].product = op[r].product
                    /\ txns'[i].quantity = op[r].quantity
                    /\ txns'[i].user = op[r].user
                    /\ txns'[i].notes =
                         (IF op[r].notes = Undefined THEN "" ELSE op[r].notes)
               /\ \A j \in DOMAIN txns : txns'[j] = txns[j]
               /\ prod'[op[r].product].quantity =
                    (IF op[r].type = "input"
                       THEN prod[op[r].product].quantity + op[r].quantity
                       ELSE prod[op[r].product].quantity - op[r].quantity)
               /\ prod'[op[r].product].quantity >= 0
               /\ resp[r] = "success"]_vars

\* an output of the whole stock, with notes, has committed and left 0
C30_Witness ==
  \E r \in Reqs :
    /\ pc[r] = "done" /\ committed[r] /\ resp[r] = "success"
    /\ DOMAIN txns = {1} /\ txns[1].type = "output"
    /\ txns[1].quantity = MaxQty /\ initial["p1"] = MaxQty
    /\ txns[1].notes = "n" /\ txns[1].user = "u2"
    /\ prod["p1"].quantity = 0

\* C31: a delete of an output movement whose product is stored never fails
\* with NegativeStockViolation; that failure is raised only for an input
\* movement whose quantity exceeds the product's quantity
C31_DeleteNegativeOnlyInput ==
  [][\A r \in Reqs :
       (/\ ReadStep(r) /\ op[r].kind = "delete"
        /\ TxFound(FindTx(op[r].id))
        /\ prod[FindTx(op[r].id).product].exists)
         => LET tx == FindTx(op[r].id)
                q  == prod[tx.product].quantity
            IN /\ tx.type = "output" => pc'[r] = "writeTx"
               /\ err'[r].kind = "NegativeStock"
                    <=> (tx.type = "input" /\ tx.quantity > q)]_vars

\* a delete of an input of 2 was refused while the product held less, after
\* an output had taken the stock
C31_Witness ==
  \E r \in Reqs :
    /\ pc[r] = "catch" /\ op[r].kind = "delete" /\ err[r].kind = "NegativeStock"
    /\ FindTx(op[r].id).type = "input" /\ FindTx(op[r].id).quantity = MaxQty
    /\ prod["p1"].quantity < MaxQty
    /\ \E i \in DOMAIN txns : txns[i].type = "output"

C34_CountAtMostTotal ==
  lpc = "done" => result.count <= result.totalCount

\* C35: deleteCategory removes a category only if no product references its
\* name at the moment the category is removed, whatever product creations
\* and updates run between its reference check and its delete
C35_RemovedOnlyUnreferenced ==
  [][\A c \in CategoryNames :
       (categories[c] /\ ~categories'[c]) => GetProducts(c) = {}]_vars

====
